---- MODULE Spec2Model ----
(***************************************************************************)
(* The liquidation bot of MORE-Liquidation-Bot: one scan cycle of main().  *)
(* Two entry scripts exist side by side and both are modelled; the         *)
(* variable prog says which one runs:                                      *)
(*   "index"  - src/index.js          (submits the liquidation, alerts)    *)
(*   "quoted" - src/unnamed/part_000  (close-factor sizing, collateral     *)
(*              selection and swap quotes; its submission is commented     *)
(*              out in the source)                                         *)
(*                                                                         *)
(* Units.  ethers' BigNumber is arbitrary precision, TLC's integers are    *)
(* 32 bit, so 18-decimal health factors are counted in units of 10^16:     *)
(* WeiPerEther is 100, 0.95 ether is 95, 1.05 ether is 105.  Token amounts *)
(* and prices are small integers; all divisions truncate as BigNumber.div. *)
(***************************************************************************)
EXTENDS Integers, Sequences, FiniteSets, TLC

\* ---------------------------------------------------------------- bounds
NumUsers == 2

\* ------------------------------------------------------ program constants
WeiPerEther == 100
CLOSE_FACTOR_HF_THRESHOLD == 95
DEFAULT_LIQUIDATION_CLOSE_FACTOR == 5000
MAX_LIQUIDATION_CLOSE_FACTOR == 10000
\* 50 in the source; 2 here so that a borrower list of 3 spans two chunks
userChunkSize == 2
SLEEP_MS == 5000
\* constants.MaxUint256, the "maximum" sentinel: above every amount of the model
MaxUint256 == (2 ^ 30) - 1
\* 8 in the source; 1 here so that small prices and balances give non-zero values
oracleDecimals == 1
\* getTokenDecimals' default when the lookup fails; 18 in the source
DEFAULT_DECIMALS == 1

None == "none"

\* ----------------------------------------------------------- environments
\* The answer of a guarded remote read (getAssetPrice, getTokenDecimals): the
\* value, or a rejection
Ok(v) == [ok |-> TRUE, value |-> v]
Failed == [ok |-> FALSE, value |-> 0]

\* reserveData.configuration.data: a packed unsigned integer, held as its
\* binary digits, least significant first (digit k+1 is bit k).  The fields
\* are packed from bit 0 up: 16 + 16 bits, the liquidation bonus (bits 32-47),
\* 8 bits, bit 56, and 7 bits above it.
ToBits(v, width) == [k \in 1..width |-> (v \div (2 ^ (k - 1))) % 2]

ReserveWord(ltv, threshold, bonus, decimals, bit56, above) ==
  ToBits(ltv, 16) \o ToBits(threshold, 16) \o ToBits(bonus, 16)
    \o ToBits(decimals, 8) \o ToBits(bit56, 1) \o ToBits(above, 7)

\* The answer of getReserveData: the configuration word, or a rejection
FailedReserve == [ok |-> FALSE, value |-> <<>>]
EligibleReserve == Ok(ReserveWord(7500, 8000, 10500, 18, 1, 0))
IneligibleReserve == Ok(ReserveWord(7500, 8000, 10500, 18, 0, 0))

\* Answers of the swap venues to the remote calls of a quote request
V2Reverts == [reverts |-> TRUE, amounts |-> <<>>]
V2Amounts(amounts) == [reverts |-> FALSE, amounts |-> amounts]
V3Fee(amountOut) == [reverts |-> FALSE, amountOut |-> amountOut]
V3FeeReverts == [reverts |-> TRUE, amountOut |-> 0]
V3Reverts == << V3FeeReverts, V3FeeReverts, V3FeeReverts, V3FeeReverts >>
AgroReverts == [reverts |-> TRUE, amounts |-> <<>>, path |-> <<>>,
                adapters |-> <<>>]
AgroOffer(amounts) == [reverts |-> FALSE, amounts |-> amounts, path |-> <<>>,
                       adapters |-> << "adapter1" >>]

\* The borrower ids the indexing service can yield, in its stable order.
AllUsers == <<"u1", "u2", "u3", "u4">>

\* What the remote ledger may answer in a run: config.json (pools, wrappers)
\* and the ranges of the values the remote reads return.
CycleEnv ==
  [ pools   |-> <<"p1", "p2">>,
    mTokens |-> <<"mA", "mB">>,
    dTokens |-> <<"dA", "dC">>,
    hfs     |-> {0, 97, 104},
    mBals   |-> {7},
    dBals   |-> {0, 1000},
    liqs    |-> {0, 2000},
    reserves |-> {EligibleReserve, FailedReserve},
    prices  |-> {Ok(25), Failed},
    decs    |-> {Ok(0)},
    clocks  |-> {"09:30", "12:00"},
    deliveries |-> {TRUE, FALSE},
    wflow   |-> "W",
    v2s     |-> {V2Reverts},
    v3s     |-> {V3Reverts},
    agros   |-> {AgroReverts, AgroOffer(<< 100, 90 >>)} ]

SizingEnv ==
  [ pools   |-> <<"p1">>,
    mTokens |-> <<"mA", "mB">>,
    dTokens |-> <<"dA">>,
    hfs     |-> {1, 90, 94, 95, 97, 99, 100},
    mBals   |-> {7},
    dBals   |-> {3, 1000},
    liqs    |-> {0, 1, 499, 500, 501, 700, 1000, 2000},
    reserves |-> {EligibleReserve},
    prices  |-> {Ok(25)},
    decs    |-> {Ok(0)},
    clocks  |-> {"09:30"},
    deliveries |-> {TRUE},
    wflow   |-> "W",
    v2s     |-> {V2Reverts},
    v3s     |-> {V3Reverts},
    agros   |-> {AgroOffer(<< 100, 90 >>)} ]

TierEnv ==
  [ pools   |-> <<"p1">>,
    mTokens |-> <<"mA", "mB">>,
    dTokens |-> <<"dA">>,
    hfs     |-> {0, 1, 94, 99, 100, 101, 104, 105},
    mBals   |-> {7},
    dBals   |-> {1000},
    liqs    |-> {2000},
    reserves |-> {EligibleReserve},
    prices  |-> {Ok(25)},
    decs    |-> {Ok(0)},
    clocks  |-> {"09:30"},
    deliveries |-> {TRUE},
    wflow   |-> "W",
    v2s     |-> {V2Reverts},
    v3s     |-> {V3Reverts},
    agros   |-> {AgroOffer(<< 100, 90 >>)} ]

\* Two pools and a borrower list that is not a multiple of the chunk size
ScanEnv ==
  [ pools   |-> <<"p1", "p2">>,
    mTokens |-> <<"mA", "mB">>,
    dTokens |-> <<"dA">>,
    hfs     |-> {97, 104},
    mBals   |-> {7},
    dBals   |-> {1000},
    liqs    |-> {2000},
    reserves |-> {EligibleReserve},
    prices  |-> {Ok(25)},
    decs    |-> {Ok(0)},
    clocks  |-> {"09:30"},
    deliveries |-> {TRUE},
    wflow   |-> "W",
    v2s     |-> {V2Reverts},
    v3s     |-> {V3Reverts},
    agros   |-> {AgroOffer(<< 100, 90 >>)} ]

\* One borrower whose debt is asset A or asset B (the wrapped native token of
\* config.contracts.wflow), and venues that revert, answer nothing usable, or
\* answer different amounts.
QuoteEnv ==
  [ pools   |-> <<"p1">>,
    mTokens |-> <<"mA", "mB">>,
    dTokens |-> <<"dA", "dB">>,
    hfs     |-> {97},
    mBals   |-> {7},
    dBals   |-> {0, 1000},
    liqs    |-> {2000},
    reserves |-> {EligibleReserve},
    prices  |-> {Ok(25)},
    decs    |-> {Ok(0)},
    clocks  |-> {"09:30"},
    deliveries |-> {TRUE},
    wflow   |-> "b",
    v2s     |-> {V2Reverts, V2Amounts(<< 525 >>), V2Amounts(<< 525, 950 >>),
                 V2Amounts(<< 525, 1200 >>)},
    v3s     |-> {V3Reverts,
                 << V3Fee(0), V3FeeReverts, V3Fee(0), V3FeeReverts >>,
                 << V3FeeReverts, V3Fee(800), V3Fee(1100), V3Fee(1100) >>},
    agros   |-> {AgroReverts, AgroOffer(<<>>), AgroOffer(<< 525, 0 >>),
                 AgroOffer(<< 525, 1000 >>)} ]

\* One borrower with up to three collateral holdings of different balances,
\* prices and decimals, whose reads may fail one by one
SelectEnv ==
  [ pools   |-> <<"p1">>,
    mTokens |-> <<"mA", "mB", "mC">>,
    dTokens |-> <<"dA">>,
    hfs     |-> {97},
    mBals   |-> {0, 7, 30},
    dBals   |-> {1000},
    liqs    |-> {2000},
    reserves |-> {EligibleReserve, IneligibleReserve, FailedReserve},
    prices  |-> {Ok(25), Ok(100), Failed},
    decs    |-> {Ok(0), Failed},
    clocks  |-> {"09:30"},
    deliveries |-> {TRUE},
    wflow   |-> "W",
    v2s     |-> {V2Reverts},
    v3s     |-> {V3Reverts},
    agros   |-> {AgroOffer(<< 100, 90 >>)} ]

\* One borrower with two collateral holdings whose reserve configuration words
\* differ in bit 56, in the bonus field and in the bits next to both: a usual
\* word; every bit set but bit 56; bit 56 alone; bits 31, 32, 55, 56 and 57;
\* bits 47 and 57 without bit 56; bits 48 and 56 (bonus field empty).
ConfigEnv ==
  [ pools   |-> <<"p1">>,
    mTokens |-> <<"mA", "mB">>,
    dTokens |-> <<"dA">>,
    hfs     |-> {97},
    mBals   |-> {7, 30},
    dBals   |-> {1000},
    liqs    |-> {2000},
    reserves |-> {EligibleReserve,
                  Ok(ReserveWord(65535, 65535, 65535, 255, 0, 127)),
                  Ok(ReserveWord(0, 0, 0, 0, 1, 0)),
                  Ok(ReserveWord(0, 32768, 1, 128, 1, 1)),
                  Ok(ReserveWord(0, 0, 32768, 0, 0, 1)),
                  Ok(ReserveWord(0, 0, 0, 1, 1, 0)),
                  FailedReserve},
    prices  |-> {Ok(25)},
    decs    |-> {Ok(0)},
    clocks  |-> {"09:30"},
    deliveries |-> {TRUE},
    wflow   |-> "W",
    v2s     |-> {V2Reverts},
    v3s     |-> {V3Reverts},
    agros   |-> {AgroOffer(<< 100, 90 >>)} ]

\* Wrappers with zero and positive balances; two collateral wrappers (mA and
\* mA2) report the same underlying asset
ResolverEnv ==
  [ pools   |-> <<"p1">>,
    mTokens |-> <<"mA", "mA2", "mB">>,
    dTokens |-> <<"dA", "dB">>,
    hfs     |-> {97},
    mBals   |-> {0, 7},
    dBals   |-> {0, 1000},
    liqs    |-> {2000},
    reserves |-> {EligibleReserve},
    prices  |-> {Ok(25)},
    decs    |-> {Ok(0)},
    clocks  |-> {"09:30"},
    deliveries |-> {TRUE},
    wflow   |-> "W",
    v2s     |-> {V2Reverts},
    v3s     |-> {V3Reverts},
    agros   |-> {AgroOffer(<< 100, 90 >>)} ]

\* UNDERLYING_ASSET_ADDRESS() of each wrapper, as the chain returns it
\* (checksummed, mixed case: upper-case letters here).
UnderlyingOf(w) ==
  CASE w = "mA" -> "A"
    [] w = "mA2" -> "A"
    [] w = "mB" -> "B"
    [] w = "mC" -> "C"
    [] w = "dA" -> "A"
    [] w = "dB" -> "B"
    [] w = "dC" -> "C"
    [] OTHER    -> "Z"

\* String.prototype.toLowerCase on an asset address
toLowerCase(a) ==
  CASE a = "A" -> "a"
    [] a = "B" -> "b"
    [] a = "C" -> "c"
    [] a = "Z" -> "z"
    [] a = "W" -> "w"
    [] OTHER   -> a

\* ------------------------------------------------------------------ state
VARIABLES
  prog,                \* which entry script runs
  env,                 \* config.json and the ledger's answer ranges
  users,               \* allUsers, as fetched from the subgraph
  pc,                  \* position of main()
  poolInd,             \* scan: index of the pool being scanned (1-based)
  i,                   \* scan: offset of the current chunk (0-based)
  returnData,          \* scan: the gateway's answer to the latest chunk
  allUsersHealthRes,   \* the HealthRecords decoded so far
  unhealthyUsers,      \* liquidatable tier
  wideUnhealthyUsers,  \* watch tier
  zeroHealthUsers,     \* zeroed tier
  idx,                 \* position of the for..of loop in unhealthyUsers
  started,             \* history: records whose loop body was entered
  tokenRes,            \* the decoded answer to the borrower's position lookup
  mInfos, dInfos, tokensWithUnderlying,   \* Position Resolver output
  assetReads,          \* what the reads of selectBestCollateralAsset returned,
                       \* per holding, until main() has moved on (<<>> then)
  bestCollateral,      \* selectBestCollateralAsset's result
  sizing,              \* debtBalanceInmToken, close-factor amount, checkedBal, cover
  lParam,              \* the liquidation plan, once assembled (<<>> before)
  inFlight,            \* borrowers whose submission is sent and not yet final
  outcome,             \* classification of the current attempt
  slept,               \* the delay of the sleep after the current attempt
  swap,                \* getLiquidationSwapParams: the call, what the venues
                       \* answered, the quotes and the returned parameters
  alerts               \* the alerts sent by the at-risk report or for the
                       \* current borrower, each with whether it was delivered

vars == << prog, env, users, pc, poolInd, i, returnData, allUsersHealthRes,
           unhealthyUsers, wideUnhealthyUsers, zeroHealthUsers, idx, started,
           tokenRes, mInfos, dInfos, tokensWithUnderlying, assetReads,
           bestCollateral, sizing, swap, lParam, inFlight, outcome, slept,
           alerts >>

scanVars == << returnData, allUsersHealthRes, unhealthyUsers,
               wideUnhealthyUsers, zeroHealthUsers, poolInd, i >>
borrowerVars == << mInfos, dInfos, tokensWithUnderlying, bestCollateral,
                   sizing, lParam, outcome, slept, assetReads, swap,
                   tokenRes >>

\* main() rejected: the read that threw was not guarded
Aborted == pc \in {"aborted:scan", "aborted:positions", "aborted:liquidity",
                   "aborted:seize", "aborted:alert"}

\* ---------------------------------------------------------------- helpers
Min(a, b) == IF a <= b THEN a ELSE b

\* Array.prototype.slice(from, to) with a 0-based from and an exclusive to
slice(s, from, to) == SubSeq(s, from + 1, Min(to, Len(s)))

\* Array.prototype.sort with the comparator of the watch tier: ascending by
\* healthFactor, stable (insertion of each element after its equals).
RECURSIVE InsertByHealth(_, _)
InsertByHealth(sorted, r) ==
  IF sorted = <<>> THEN <<r>>
  ELSE IF r.healthFactor < Head(sorted).healthFactor THEN <<r>> \o sorted
  ELSE <<Head(sorted)>> \o InsertByHealth(Tail(sorted), r)

RECURSIVE SortByHealthAsc(_)
SortByHealthAsc(s) ==
  IF s = <<>> THEN <<>>
  ELSE InsertByHealth(SortByHealthAsc(SubSeq(s, 1, Len(s) - 1)), s[Len(s)])

\* ------------------------------------------------------------ tier filters
IsUnhealthyMutZero(r) == r.healthFactor <= WeiPerEther
IsUnhealthy(r) == r.healthFactor <= WeiPerEther /\ r.healthFactor > 0

IsWideUnhealthy(r) ==
  r.healthFactor < (WeiPerEther * 105) \div 100 /\ r.healthFactor >= WeiPerEther

IsZeroHealth(r) == r.healthFactor = 0

\* ------------------------------------------------------------------- init
NoSizing == [invoked |-> FALSE, healthFactor |-> 0, userDebtBalance |-> 0,
             debtBalanceInmToken |-> 0, maxDebtToCover |-> 0,
             checkedBal |-> 0, cover |-> 0]

\* no call of getLiquidationSwapParams yet for this borrower
NoSwap == [asked |-> FALSE]

InitWith(e, maxUsers) ==
  /\ prog \in {"index", "quoted"}
  /\ env = e
  /\ \E n \in 1..maxUsers : users = SubSeq(AllUsers, 1, n)
  /\ pc = "scan"
  /\ poolInd = 1
  /\ i = 0
  /\ returnData = <<>>
  /\ allUsersHealthRes = <<>>
  /\ unhealthyUsers = <<>>
  /\ wideUnhealthyUsers = <<>>
  /\ zeroHealthUsers = <<>>
  /\ idx = 1
  /\ started = <<>>
  /\ mInfos = <<>>
  /\ dInfos = <<>>
  /\ tokensWithUnderlying = <<>>
  /\ bestCollateral = <<>>
  /\ sizing = NoSizing
  /\ lParam = <<>>
  /\ inFlight = {}
  /\ outcome = None
  /\ slept = 0
  /\ assetReads = <<>>
  /\ swap = NoSwap
  /\ tokenRes = <<>>
  /\ alerts = <<>>

Init == InitWith(CycleEnv, NumUsers)

\* ------------------------------------------------------------------- scan
\* The decode of one chunk's answer: the ind-th result is zipped with the
\* borrower at position ind + i of the full list.
userWithHealthMutOffset(pool, offset, results) ==
  [ind \in 1..Len(results) |->
     [pool |-> pool, user |-> users[ind],
      healthFactor |-> results[ind]]]

userWithHealth(pool, offset, results) ==
  [ind \in 1..Len(results) |->
     [pool |-> pool, user |-> users[ind + offset],
      healthFactor |-> results[ind]]]

\* One chunk of one pool: the batched getUserAccountData call and its decode.
\* The call is not guarded: when it rejects, main() rejects.
ScanChunk ==
  /\ pc = "scan"
  /\ LET pool == env.pools[poolInd]
         userChunk == slice(users, i, i + userChunkSize)
         nextI == i + userChunkSize
     IN
       \/ \E results \in [1..Len(userChunk) -> env.hfs] :
              /\ returnData' = results
              /\ allUsersHealthRes' =
                   allUsersHealthRes \o userWithHealth(pool, i, results)
              /\ IF nextI < Len(users)
                   THEN /\ i' = nextI
                        /\ poolInd' = poolInd
                        /\ pc' = "scan"
                   ELSE /\ i' = 0
                        /\ poolInd' = poolInd + 1
                        /\ pc' = IF poolInd + 1 <= Len(env.pools)
                                   THEN "scan" ELSE "filter"
       \/ /\ pc' = "aborted:scan"
          /\ UNCHANGED << returnData, allUsersHealthRes, poolInd, i >>
  /\ UNCHANGED << prog, env, users, unhealthyUsers, wideUnhealthyUsers,
                  zeroHealthUsers, idx, started, inFlight, alerts >>
  /\ UNCHANGED borrowerVars

\* ----------------------------------------------------------------- alerts
\* bot.telegram.sendMessage(chat, text): the attempt, and whether it arrived
sendMessage(at, delivered) == [at |-> at, delivered |-> delivered]

TryAlertsMutUncaught(sent, next) ==
  IF \E k \in 1..Len(sent) : ~sent[k].delivered THEN "aborted:alert" ELSE next

\* Every send sits in a try/catch of its own whose catch only logs: where
\* main() goes after the sends does not depend on them.
TryAlerts(sent, next) == next

\* index.js: at 12:00 UTC, one message for a non-empty watch tier and one for
\* a non-empty zeroed tier.  part_000 has the sends commented out.
atRiskReport(clock, wide, zero, dWide, dZero) ==
  IF prog = "index" /\ clock = "12:00"
    THEN (IF Len(wide) > 0 THEN << sendMessage("report:wide", dWide) >>
                           ELSE <<>>)
         \o (IF Len(zero) > 0 THEN << sendMessage("report:zero", dZero) >>
                              ELSE <<>>)
    ELSE <<>>

\* The three filters over the decoded records, the at-risk report, then the
\* loop is entered.
Filter ==
  /\ pc = "filter"
  /\ unhealthyUsers' = SelectSeq(allUsersHealthRes, IsUnhealthy)
  /\ wideUnhealthyUsers' =
       SortByHealthAsc(SelectSeq(allUsersHealthRes, IsWideUnhealthy))
  /\ zeroHealthUsers' = SelectSeq(allUsersHealthRes, IsZeroHealth)
  /\ \E clock \in env.clocks, dWide \in env.deliveries,
        dZero \in env.deliveries :
       alerts' = atRiskReport(clock, wideUnhealthyUsers', zeroHealthUsers',
                              dWide, dZero)
  /\ pc' = TryAlerts(alerts', "loop")
  /\ UNCHANGED << prog, env, users, poolInd, i, returnData, allUsersHealthRes,
                  idx, started, inFlight >>
  /\ UNCHANGED borrowerVars

\* ------------------------------------------------------ position resolver
\* The request list of one borrower, answered: for every wrapper (collateral
\* wrappers first) its balance, then its underlying asset.
RECURSIVE TokenInfos(_, _)
TokenInfos(wrappers, bals) ==
  IF wrappers = <<>> THEN <<>>
  ELSE << Head(bals), UnderlyingOf(Head(wrappers)) >>
         \o TokenInfos(Tail(wrappers), Tail(bals))

HasUnderlyingMutNever(list, token) == FALSE

HasUnderlyingMutAlways(list, token) == TRUE

\* tokensWithUnderlying.some(t => t.token == token)
HasUnderlying(list, token) == \E k \in 1..Len(list) : list[k].token = token

IsHeldMutAny(detailedInfo) == TRUE

\* if (detailedInfo.gt(0)): only a positive balance makes a holding
IsHeld(detailedInfo) == detailedInfo > 0

\* The decode loop over tokenInfos, from the 0-based position ii on.
RECURSIVE DecodeFrom(_, _, _, _)
DecodeFrom(tokenInfos, mTokens, ii, acc) ==
  IF ii >= Len(tokenInfos) THEN acc
  ELSE
    LET selInd == ii % 2
        detailedInfo == tokenInfos[ii + 1]
        isCollateral == ii < Len(mTokens) * 2
        holding == [token |-> tokenInfos[ii + 2], amount |-> detailedInfo]
        key == toLowerCase(detailedInfo)
        acc2 ==
          IF selInd = 0
            THEN IF IsHeld(detailedInfo)
                   THEN IF isCollateral
                          THEN [acc EXCEPT !.mInfos = Append(@, holding)]
                          ELSE [acc EXCEPT !.dInfos = Append(@, holding)]
                   ELSE acc
            ELSE IF isCollateral /\ ~HasUnderlying(acc.tokensWithUnderlying, key)
                   THEN [acc EXCEPT !.tokensWithUnderlying =
                           Append(@, [token |-> key,
                                      mtoken |-> mTokens[(ii \div 2) + 1]])]
                   ELSE acc
    IN DecodeFrom(tokenInfos, mTokens, ii + 1, acc2)

DecodeMutBoundary(tokenInfos, mTokens) ==
  DecodeFrom(tokenInfos, Tail(mTokens), 0,
             [mInfos |-> <<>>, dInfos |-> <<>>, tokensWithUnderlying |-> <<>>])

Decode(tokenInfos, mTokens) ==
  DecodeFrom(tokenInfos, mTokens, 0,
             [mInfos |-> <<>>, dInfos |-> <<>>, tokensWithUnderlying |-> <<>>])

FindDebtMTokenMutFirst(list, debtAsset) ==
  IF list = <<>> THEN <<>> ELSE << list[1] >>

\* tokensWithUnderlying.find(uToken => uToken.token == debtAsset.toLowerCase())
FindDebtMToken(list, debtAsset) ==
  LET hits == {k \in 1..Len(list) : list[k].token = toLowerCase(debtAsset)}
  IN IF hits = {} THEN <<>>
     ELSE << list[CHOOSE k \in hits : \A j \in hits : k <= j] >>

NextBorrowerMutSkip ==
  /\ idx' = idx + 2
  /\ pc' = "loop"

\* `continue`, or the end of the loop body without an attempt
NextBorrower ==
  /\ idx' = idx + 1
  /\ pc' = "loop"

\* index.js: the message at the head of the loop body, and the message of the
\* branch without collateral or debt.  part_000 has both commented out.
startAlerts(dStart) ==
  IF prog = "index" THEN << sendMessage("start", dStart) >> ELSE <<>>

noPositionAlerts(dNone) ==
  IF prog = "index" THEN << sendMessage("none", dNone) >> ELSE <<>>

\* The loop body up to the first branch: the start message, the batched
\* position lookup of the borrower, the decode, and the test for collateral
\* and debt.  The lookup is not guarded: when it rejects, main() rejects.
Resolve ==
  /\ pc = "loop"
  /\ idx <= Len(unhealthyUsers)
  /\ started' = Append(started, unhealthyUsers[idx])
  /\ bestCollateral' = <<>>
  /\ sizing' = NoSizing
  /\ lParam' = <<>>
  /\ outcome' = None
  /\ slept' = 0
  /\ assetReads' = <<>>
  /\ swap' = NoSwap
  /\ \E dStart \in env.deliveries, dNone \in env.deliveries :
     \/ \E mb \in [1..Len(env.mTokens) -> env.mBals],
           db \in [1..Len(env.dTokens) -> env.dBals] :
          LET infos == TokenInfos(env.mTokens \o env.dTokens, mb \o db)
              dec == Decode(infos, env.mTokens)
          IN
            /\ tokenRes' = infos
            /\ mInfos' = dec.mInfos
            /\ dInfos' = dec.dInfos
            /\ tokensWithUnderlying' = dec.tokensWithUnderlying
            /\ IF Len(dec.mInfos) > 0 /\ Len(dec.dInfos) > 0
                 THEN /\ alerts' = startAlerts(dStart)
                      /\ IF prog = "quoted"
                           THEN /\ pc' = "select"
                                /\ idx' = idx
                           ELSE IF FindDebtMToken(dec.tokensWithUnderlying,
                                                  dec.dInfos[1].token) # <<>>
                                  THEN /\ pc' = TryAlerts(alerts', "size")
                                       /\ idx' = idx
                                  ELSE /\ pc' = TryAlerts(alerts', "loop")
                                       /\ idx' = idx + 1
                 ELSE /\ alerts' = startAlerts(dStart)
                                     \o noPositionAlerts(dNone)
                      /\ IF prog = "quoted"
                           THEN NextBorrower
                           ELSE /\ pc' = TryAlerts(alerts', "loop")
                                /\ idx' = idx + 1
     \/ /\ pc' = TryAlerts(startAlerts(dStart), "aborted:positions")
        /\ alerts' = startAlerts(dStart)
        /\ UNCHANGED << tokenRes, mInfos, dInfos, tokensWithUnderlying, idx >>
  /\ UNCHANGED << prog, env, users, inFlight >>
  /\ UNCHANGED scanVars

\* ---------------------------------------------------- collateral selector
Pow10(n) == 10 ^ n

\* What the remote reads of one holding may return: getReserveData (the
\* eligibility flag set, clear, or a rejection), getAssetPrice and decimals.
AssetAnswers ==
  [reserve  : env.reserves,
   price    : env.prices,
   decimals : env.decs]

\* try { oracle.getAssetPrice } catch { return BigNumber.from(0) }
getAssetPrice(read) == IF read.ok THEN read.value ELSE 0

\* try { token.decimals() } catch { return 18 }
getTokenDecimals(read) == IF read.ok THEN read.value ELSE DEFAULT_DECIMALS

\* BigNumber.shr(n), BigNumber.and(mask) and the value of a BigNumber, on the
\* binary digits
shrMutOneLess(data, n) == SubSeq(data, n, Len(data))

shr(data, n) == SubSeq(data, n + 1, Len(data))

and(data, mask) == [k \in 1..Min(Len(data), Len(mask)) |-> data[k] * mask[k]]

RECURSIVE toNumber(_)
toNumber(data) ==
  IF Len(data) = 0 THEN 0 ELSE Head(data) + 2 * toNumber(Tail(data))

\* data.shr(32).and(0xFFFF)
extractLiquidationBonus(configurationData) ==
  toNumber(and(shr(configurationData, 32), ToBits(65535, 16)))

\* data.shr(56).and(0x1).eq(1)
extractUsageAsCollateralEnabled(configurationData) ==
  toNumber(and(shr(configurationData, 56), ToBits(1, 1))) = 1

getReserveConfigurationMutAll(read) ==
  [liquidationBonus |->
     IF read.ok THEN extractLiquidationBonus(read.value) ELSE 0,
   usageAsCollateralEnabled |-> TRUE]

\* try { decode getReserveData } catch { bonus 0, flag false }
getReserveConfiguration(read) ==
  IF read.ok
    THEN [liquidationBonus |-> extractLiquidationBonus(read.value),
          usageAsCollateralEnabled |->
            extractUsageAsCollateralEnabled(read.value)]
    ELSE [liquidationBonus |-> 0, usageAsCollateralEnabled |-> FALSE]

\* The candidate pushed for a holding whose reserve is collateral-eligible
Candidate(mInfo, ans) ==
  LET reserveConfig == getReserveConfiguration(ans.reserve)
      price == getAssetPrice(ans.price)
      decimals == getTokenDecimals(ans.decimals)
  IN [address |-> mInfo.token,
      balance |-> mInfo.amount,
      price |-> price,
      decimals |-> decimals,
      valueUSD |-> ((price * mInfo.amount) \div Pow10(decimals))
                      \div Pow10(oracleDecimals),
      liquidationBonus |-> reserveConfig.liquidationBonus,
      usageAsCollateralEnabled |-> reserveConfig.usageAsCollateralEnabled]

\* The for loop of selectBestCollateralAsset: holdings in input order
RECURSIVE collateralCandidates(_, _)
collateralCandidates(infos, answers) ==
  IF infos = <<>> THEN <<>>
  ELSE (IF getReserveConfiguration(Head(answers).reserve)
                .usageAsCollateralEnabled
          THEN << Candidate(Head(infos), Head(answers)) >>
          ELSE <<>>)
       \o collateralCandidates(Tail(infos), Tail(answers))

RECURSIVE InsertByValueMutUnstable(_, _)
InsertByValueMutUnstable(sorted, c) ==
  IF sorted = <<>> THEN <<c>>
  ELSE IF c.valueUSD >= Head(sorted).valueUSD THEN <<c>> \o sorted
  ELSE <<Head(sorted)>> \o InsertByValueMutUnstable(Tail(sorted), c)

\* Array.prototype.sort, descending by valueUSD, stable
RECURSIVE InsertByValue(_, _)
InsertByValue(sorted, c) ==
  IF sorted = <<>> THEN <<c>>
  ELSE IF c.valueUSD > Head(sorted).valueUSD THEN <<c>> \o sorted
  ELSE <<Head(sorted)>> \o InsertByValue(Tail(sorted), c)

RECURSIVE SortByValueDesc(_)
SortByValueDesc(s) ==
  IF s = <<>> THEN <<>>
  ELSE InsertByValue(SortByValueDesc(SubSeq(s, 1, Len(s) - 1)), s[Len(s)])

\* <<>> stands for null
selectBestCollateralAsset(infos, answers) ==
  LET cands == collateralCandidates(infos, answers)
  IN IF Len(cands) = 0 THEN <<>> ELSE << SortByValueDesc(cands)[1] >>

\* part_000 only: best collateral, then the wrapper of the debt asset
Select ==
  /\ pc = "select"
  /\ \E answers \in [1..Len(mInfos) -> AssetAnswers] :
       LET best == selectBestCollateralAsset(mInfos, answers)
       IN /\ assetReads' = answers
          /\ bestCollateral' = best
          /\ IF best = <<>>
               THEN NextBorrower
               ELSE IF FindDebtMToken(tokensWithUnderlying, dInfos[1].token) # <<>>
                      THEN /\ pc' = "size"
                           /\ idx' = idx
                      ELSE NextBorrower
  /\ UNCHANGED << prog, env, users, started, inFlight, tokenRes, mInfos,
                  dInfos,
                  tokensWithUnderlying, sizing, lParam, outcome, slept, swap >>
  /\ UNCHANGED << scanVars, alerts >>

\* ---------------------------------------------------------- sizing engine
calculateDebtToCoverMutSwap(healthFactor, userDebtBalance) ==
  LET closeFactor == IF healthFactor < CLOSE_FACTOR_HF_THRESHOLD
                       THEN DEFAULT_LIQUIDATION_CLOSE_FACTOR
                       ELSE MAX_LIQUIDATION_CLOSE_FACTOR
  IN (userDebtBalance * closeFactor) \div 10000

calculateDebtToCover(healthFactor, userDebtBalance) ==
  LET closeFactor == IF healthFactor < CLOSE_FACTOR_HF_THRESHOLD
                       THEN MAX_LIQUIDATION_CLOSE_FACTOR
                       ELSE DEFAULT_LIQUIDATION_CLOSE_FACTOR
  IN (userDebtBalance * closeFactor) \div 10000

\* part_000: close-factor amount, capped by the liquidity of the wrapper
SizeQuotedMutGe(healthFactor, userDebtBalance, debtBalanceInmToken) ==
  LET maxDebtToCoverByCloseFactor ==
        calculateDebtToCover(healthFactor, userDebtBalance)
      checkedBal == Min(maxDebtToCoverByCloseFactor, debtBalanceInmToken)
  IN [invoked |-> TRUE,
      healthFactor |-> healthFactor,
      userDebtBalance |-> userDebtBalance,
      debtBalanceInmToken |-> debtBalanceInmToken,
      maxDebtToCover |-> maxDebtToCoverByCloseFactor,
      checkedBal |-> checkedBal,
      cover |-> IF debtBalanceInmToken >= maxDebtToCoverByCloseFactor
                  THEN checkedBal ELSE MaxUint256]

SizeQuotedMutExact(healthFactor, userDebtBalance, debtBalanceInmToken) ==
  LET maxDebtToCoverByCloseFactor ==
        calculateDebtToCover(healthFactor, userDebtBalance)
      checkedBal == Min(maxDebtToCoverByCloseFactor, debtBalanceInmToken)
  IN [invoked |-> TRUE,
      healthFactor |-> healthFactor,
      userDebtBalance |-> userDebtBalance,
      debtBalanceInmToken |-> debtBalanceInmToken,
      maxDebtToCover |-> maxDebtToCoverByCloseFactor,
      checkedBal |-> checkedBal,
      cover |-> checkedBal]

SizeQuoted(healthFactor, userDebtBalance, debtBalanceInmToken) ==
  LET maxDebtToCoverByCloseFactor ==
        calculateDebtToCover(healthFactor, userDebtBalance)
      checkedBal == Min(maxDebtToCoverByCloseFactor, debtBalanceInmToken)
  IN [invoked |-> TRUE,
      healthFactor |-> healthFactor,
      userDebtBalance |-> userDebtBalance,
      debtBalanceInmToken |-> debtBalanceInmToken,
      maxDebtToCover |-> maxDebtToCoverByCloseFactor,
      checkedBal |-> checkedBal,
      cover |-> IF checkedBal = maxDebtToCoverByCloseFactor
                  THEN MaxUint256 ELSE checkedBal]

\* index.js: the whole debt, capped by the liquidity of the wrapper (no close
\* factor, calculateDebtToCover does not exist there)
SizeIndex(healthFactor, increasedDebtBal, debtBalanceInmToken) ==
  [invoked |-> FALSE,
   healthFactor |-> healthFactor,
   userDebtBalance |-> increasedDebtBal,
   debtBalanceInmToken |-> debtBalanceInmToken,
   maxDebtToCover |-> increasedDebtBal,
   checkedBal |-> IF increasedDebtBal > debtBalanceInmToken
                    THEN debtBalanceInmToken ELSE increasedDebtBal,
   cover |-> IF increasedDebtBal > debtBalanceInmToken
               THEN debtBalanceInmToken ELSE MaxUint256]

Plan(collateralAsset, sz) ==
  << [collateralAsset |-> collateralAsset,
      debtAsset |-> dInfos[1].token,
      user |-> unhealthyUsers[idx].user,
      amount |-> sz.checkedBal,
      transferAmount |-> 0,
      debtToCover |-> sz.cover] >>

\* debtContract.balanceOf(debtMToken.mtoken), then the sizing.  The read is
\* not guarded: when it rejects, main() rejects.  index.js assembles lParam
\* right away; part_000 goes on to the prices and the swap quotes.
Size ==
  /\ pc = "size"
  /\ \/ \E debtBalanceInmToken \in env.liqs :
          IF prog = "quoted"
            THEN /\ sizing' = SizeQuoted(unhealthyUsers[idx].healthFactor,
                                         dInfos[1].amount, debtBalanceInmToken)
                 /\ lParam' = lParam
                 /\ pc' = "quote"
            ELSE LET sz == SizeIndex(unhealthyUsers[idx].healthFactor,
                                     dInfos[1].amount, debtBalanceInmToken)
                 IN /\ sizing' = sz
                    /\ lParam' = Plan(mInfos[1].token, sz)
                    /\ pc' = "execute"
     \/ /\ pc' = "aborted:liquidity"
        /\ UNCHANGED << sizing, lParam >>
  /\ assetReads' = <<>>
  /\ UNCHANGED << prog, env, users, idx, started, inFlight, tokenRes, mInfos,
                  dInfos,
                  tokensWithUnderlying, bestCollateral, outcome, slept, swap >>
  /\ UNCHANGED << scanVars, alerts >>

\* --------------------------------------------------------- swap aggregator
SwapType == [UNISWAP_V2 |-> 0, UNISWAP_V3 |-> 1, AGRO_KITTY |-> 2]

\* config.contracts.<venue>.router
Routers == [punch |-> "punchRouter", trado |-> "tradoRouter",
            agrokitty |-> "agroKittyRouter"]

feeTiers == << 100, 500, 3000, 10000 >>

\* utils.defaultAbiCoder.encode(["address[]"], [path])
encodeAddresses(path) == [abi |-> "address[]", addresses |-> path]

\* utils.solidityPack(["address", "uint24", "address"], [tokenIn, fee, tokenOut])
solidityPack(tokenIn, fee, tokenOut) ==
  [packed |-> "address,uint24,address",
   tokenIn |-> tokenIn, fee |-> fee, tokenOut |-> tokenOut]

\* What an adapter or getBestQuote hands back: a quote, null, undefined (the
\* function ran off its end), or a rejection (an exception left it).
Quoted(q) == [tag |-> "quote", quote |-> q]
Null == [tag |-> "null"]
Undefined == [tag |-> "undefined"]
Raised == [tag |-> "raised"]

\* The answers of the three venues to the remote calls of one quote request:
\*   v2    getAmountsOut: a revert, or the amounts array
\*   v3    quoteExactInput per fee tier: a revert, or amountOut
\*   agro  findBestPath: a revert, or the offer (amounts, path, adapters;
\*         path <<>> stands for an offer without a path field)
VenueAnswers == [v2 : env.v2s, v3 : env.v3s, agro : env.agros]

getV2QuoteMutNull(tokenIn, tokenOut, amountIn, ans) ==
  IF ~ans.reverts /\ Len(ans.amounts) > 1
    THEN Quoted([swapType |-> SwapType.UNISWAP_V2,
                 router |-> Routers.punch,
                 path |-> encodeAddresses(<< tokenIn, tokenOut >>),
                 amountIn |-> amountIn,
                 amountOut |-> ans.amounts[Len(ans.amounts)],
                 amountOutMin |-> (ans.amounts[Len(ans.amounts)] * 995) \div 1000,
                 adapters |-> <<>>])
    ELSE Null

\* getAmountsOut in a try of its own: the amounts array when it has more than
\* one element, else (a revert, or a shorter answer) the fixed-cost estimate.
getV2Quote(tokenIn, tokenOut, amountIn, ans) ==
  LET path == << tokenIn, tokenOut >>
      quote(amountOut) ==
        [swapType |-> SwapType.UNISWAP_V2,
         router |-> Routers.punch,
         path |-> encodeAddresses(path),
         amountIn |-> amountIn,
         amountOut |-> amountOut,
         amountOutMin |-> (amountOut * 995) \div 1000,
         adapters |-> <<>>]
      estimatedOut == (amountIn * 987) \div 1000
  IN IF ~ans.reverts /\ Len(ans.amounts) > 1
       THEN Quoted(quote(ans.amounts[Len(ans.amounts)]))
       ELSE Quoted(quote(estimatedOut))

RECURSIVE V3TiersMutLatest(_, _, _, _, _)
V3TiersMutLatest(tokenIn, tokenOut, ans, k, best) ==
  IF k > Len(feeTiers) THEN best
  ELSE V3TiersMutLatest(tokenIn, tokenOut, ans, k + 1,
               IF ~ans[k].reverts /\ ans[k].amountOut >= best.bestAmountOut
                 THEN [bestAmountOut |-> ans[k].amountOut,
                       bestFee |-> feeTiers[k],
                       bestPath |-> << solidityPack(tokenIn, feeTiers[k],
                                                    tokenOut) >>]
                 ELSE best)

\* The loop over the fee tiers, from tier number k on, with the best so far
RECURSIVE V3Tiers(_, _, _, _, _)
V3Tiers(tokenIn, tokenOut, ans, k, best) ==
  IF k > Len(feeTiers) THEN best
  ELSE V3Tiers(tokenIn, tokenOut, ans, k + 1,
               IF ~ans[k].reverts /\ ans[k].amountOut > best.bestAmountOut
                 THEN [bestAmountOut |-> ans[k].amountOut,
                       bestFee |-> feeTiers[k],
                       bestPath |-> << solidityPack(tokenIn, feeTiers[k],
                                                    tokenOut) >>]
                 ELSE best)

getV3Quote(tokenIn, tokenOut, amountIn, ans) ==
  LET best == V3Tiers(tokenIn, tokenOut, ans, 1,
                      [bestAmountOut |-> 0, bestFee |-> 3000,
                       bestPath |-> <<>>])
  IN IF best.bestAmountOut > 0 /\ best.bestPath # <<>>
       THEN Quoted([swapType |-> SwapType.UNISWAP_V3,
                    router |-> Routers.trado,
                    path |-> best.bestPath[1],
                    amountIn |-> amountIn,
                    amountOut |-> best.bestAmountOut,
                    amountOutMin |-> (best.bestAmountOut * 995) \div 1000,
                    adapters |-> <<>>])
       ELSE Null

\* The returned quote has no amountOut field (the line is commented out).
\* When findBestPath reverts, or the final amount is missing or zero, the
\* function runs off its end: the result is undefined, not null.
getAgroKittyQuote(tokenIn, tokenOut, amountIn, adapters, ans) ==
  LET amounts == ans.amounts
      bestPath == IF ans.path = <<>> THEN << tokenIn, tokenOut >> ELSE ans.path
  IN IF ~ans.reverts /\ Len(amounts) > 0 /\ amounts[Len(amounts)] > 0
       THEN Quoted([swapType |-> SwapType.AGRO_KITTY,
                    router |-> Routers.agrokitty,
                    path |-> encodeAddresses(bestPath),
                    amountIn |-> amountIn,
                    amountOutMin |-> (amounts[Len(amounts)] * 990) \div 1000,
                    adapters |-> ans.adapters])
       ELSE Undefined

\* Only the aggregator is asked (the two other calls are commented out).
\* The filter keeps everything that is not null, undefined included; the
\* sort of a one-element list calls no comparator; the log line after it
\* reads bestQuote.amountOutMin, which throws on undefined.
getBestQuote(tokenIn, tokenOut, amountIn, ans) ==
  LET agroKittyQuote ==
        getAgroKittyQuote(tokenIn, tokenOut, amountIn, <<>>, ans.agro)
      validQuotes ==
        SelectSeq(<< agroKittyQuote >>, LAMBDA quote : quote.tag # "null")
      bestQuote == validQuotes[1]
  IN IF Len(validQuotes) = 0 THEN Null
     ELSE IF bestQuote.tag = "undefined" THEN Raised
     ELSE bestQuote

\* The parameters used for a leg without a quote
DefaultParams(tokenIn, tokenOut, amountIn) ==
  [swapType |-> SwapType.UNISWAP_V2,
   router |-> Routers.punch,
   path |-> encodeAddresses(<< tokenIn, tokenOut >>),
   amountIn |-> amountIn,
   amountOutMin |-> 0,
   adapters |-> <<>>]

\* The collateral -> debt leg
RepayQuote(collateralAsset, debtAsset, collateralAmount, ansRepay) ==
  getBestQuote(collateralAsset, debtAsset, collateralAmount, ansRepay)

DebtAmountForReceiverMutUnchained(repayQuote) ==
  IF repayQuote.tag = "quote" THEN repayQuote.quote.amountIn ELSE 0

\* The input of the debt -> wflow leg
DebtAmountForReceiver(repayQuote) ==
  IF repayQuote.tag = "quote" THEN repayQuote.quote.amountOutMin ELSE 0

\* TRUE when the second getBestQuote call is made
ReceiverAsked(debtAsset, wflowAddress, repayQuote) ==
  /\ repayQuote.tag # "raised"
  /\ toLowerCase(debtAsset) # toLowerCase(wflowAddress)
  /\ DebtAmountForReceiver(repayQuote) > 0

\* The debt -> wflow leg: no swap when the debt asset is wflow (a quote
\* object without amountOut is made up), a second getBestQuote otherwise,
\* unless there is nothing to swap.
ReceiverQuote(debtAsset, wflowAddress, repayQuote, ansReceiver) ==
  LET debtAmountForReceiver == DebtAmountForReceiver(repayQuote)
  IN IF toLowerCase(debtAsset) = toLowerCase(wflowAddress)
       THEN Quoted([swapType |-> SwapType.UNISWAP_V2,
                    router |-> Routers.punch,
                    path |-> encodeAddresses(<< debtAsset, wflowAddress >>),
                    amountIn |-> debtAmountForReceiver,
                    amountOutMin |-> debtAmountForReceiver,
                    adapters |-> <<>>])
       ELSE IF debtAmountForReceiver > 0
              THEN getBestQuote(debtAsset, wflowAddress,
                                debtAmountForReceiver, ansReceiver)
              ELSE Null

getLiquidationSwapParamsMutUncaught(collateralAsset, debtAsset, collateralAmount, wflowAddress, ansRepay, ansReceiver) ==
  LET repayQuote ==
        RepayQuote(collateralAsset, debtAsset, collateralAmount, ansRepay)
      receiverQuote ==
        ReceiverQuote(debtAsset, wflowAddress, repayQuote, ansReceiver)
  IN IF repayQuote.tag = "raised" \/ receiverQuote.tag = "raised"
       THEN Raised
       ELSE [sParamsToRepayLoan |->
               IF repayQuote.tag = "quote" THEN repayQuote.quote
               ELSE DefaultParams(collateralAsset, debtAsset,
                                  collateralAmount),
             sParamsToSendToReceiver |->
               IF receiverQuote.tag = "quote" THEN receiverQuote.quote
               ELSE DefaultParams(debtAsset, wflowAddress,
                                  DebtAmountForReceiver(repayQuote))]

\* The whole body sits in a try: a rejection of either getBestQuote call is
\* caught and answered with the default parameters for both legs.
getLiquidationSwapParams(collateralAsset, debtAsset, collateralAmount, wflowAddress, ansRepay, ansReceiver) ==
  LET repayQuote ==
        RepayQuote(collateralAsset, debtAsset, collateralAmount, ansRepay)
      receiverQuote ==
        ReceiverQuote(debtAsset, wflowAddress, repayQuote, ansReceiver)
  IN IF repayQuote.tag = "raised" \/ receiverQuote.tag = "raised"
       THEN [sParamsToRepayLoan |->
               DefaultParams(collateralAsset, debtAsset, collateralAmount),
             sParamsToSendToReceiver |->
               DefaultParams(debtAsset, wflowAddress, 0)]
       ELSE [sParamsToRepayLoan |->
               IF repayQuote.tag = "quote" THEN repayQuote.quote
               ELSE DefaultParams(collateralAsset, debtAsset,
                                  collateralAmount),
             sParamsToSendToReceiver |->
               IF receiverQuote.tag = "quote" THEN receiverQuote.quote
               ELSE DefaultParams(debtAsset, wflowAddress,
                                  DebtAmountForReceiver(repayQuote))]

\* part_000:875-882, in BigNumber's order of operations
maxAmountOfCollateralToLiquidate(debtAssetPrice, debtToCover, liquidationBonus, collateralPrice, collateralDecimals, debtDecimals) ==
  ((((((debtAssetPrice * debtToCover) * liquidationBonus) \div collateralPrice)
       \div 10000) * Pow10(collateralDecimals)) \div Pow10(debtDecimals))

\* part_000: debt price and decimals (both guarded: 0 and the default on
\* failure), the seizable collateral (BigNumber.div throws on a zero
\* collateral price, which rejects main()), the swap parameters
\* (getLiquidationSwapParams always returns), then lParam.
Quote ==
  /\ pc = "quote"
  /\ \E debtPriceRead \in env.prices, debtDecimalsRead \in env.decs,
        ansRepay \in VenueAnswers, ansReceiver \in VenueAnswers :
       LET best == bestCollateral[1]
           debtAsset == dInfos[1].token
           debtAssetPrice == getAssetPrice(debtPriceRead)
           debtDecimals == getTokenDecimals(debtDecimalsRead)
           debtToCover == IF sizing.cover = MaxUint256
                            THEN sizing.checkedBal ELSE sizing.cover
           collateralAmount ==
             maxAmountOfCollateralToLiquidate(
               debtAssetPrice, debtToCover, best.liquidationBonus,
               best.price, best.decimals, debtDecimals)
           repayQuote ==
             RepayQuote(best.address, debtAsset, collateralAmount, ansRepay)
       IN IF best.price = 0
            THEN /\ pc' = "aborted:seize"
                 /\ lParam' = lParam
                 /\ swap' = swap
            ELSE /\ swap' =
                      [asked |-> TRUE,
                       collateralAsset |-> best.address,
                       debtAsset |-> debtAsset,
                       collateralAmount |-> collateralAmount,
                       ansRepay |-> ansRepay,
                       repayQuote |-> repayQuote,
                       receiverQuote |->
                         ReceiverQuote(debtAsset, env.wflow, repayQuote,
                                       ansReceiver),
                       ansReceiver |->
                         IF ReceiverAsked(debtAsset, env.wflow, repayQuote)
                           THEN << ansReceiver >> ELSE <<>>,
                       swapParams |->
                         getLiquidationSwapParams(
                           best.address, debtAsset, collateralAmount,
                           env.wflow, ansRepay, ansReceiver)]
                 /\ lParam' = Plan(best.address, sizing)
                 /\ pc' = "execute"
  /\ UNCHANGED << prog, env, users, idx, started, inFlight, tokenRes, mInfos,
                  dInfos,
                  tokensWithUnderlying, bestCollateral, sizing, outcome, slept,
                  assetReads >>
  /\ UNCHANGED << scanVars, alerts >>

\* --------------------------------------------------- execution coordinator
ExecuteMutUncaught ==
  /\ pc = "execute"
  /\ IF prog = "index"
       THEN \/ /\ inFlight' = inFlight \cup {unhealthyUsers[idx]}
               /\ pc' = "wait"
               /\ outcome' = outcome
               /\ alerts' = alerts
            \/ /\ outcome' = "failure"
               /\ pc' = "aborted:seize"
               /\ inFlight' = inFlight
               /\ alerts' = alerts
       ELSE /\ outcome' = outcome
            /\ pc' = "sleep"
            /\ inFlight' = inFlight
            /\ alerts' = alerts
  /\ UNCHANGED << prog, env, users, idx, started, tokenRes, mInfos, dInfos,
                  tokensWithUnderlying, bestCollateral, sizing, lParam, slept,
                  assetReads, swap >>
  /\ UNCHANGED scanVars

\* index.js: botContract.execute(lParam, sParam) inside try; a throw is caught
\* and classified as a failure, and the failure message is sent.  part_000:
\* the try block is empty (the call is commented out), so nothing is sent and
\* nothing can throw.
Execute ==
  /\ pc = "execute"
  /\ IF prog = "index"
       THEN \/ /\ inFlight' = inFlight \cup {unhealthyUsers[idx]}
               /\ pc' = "wait"
               /\ outcome' = outcome
               /\ alerts' = alerts
            \/ /\ outcome' = "failure"
               /\ \E dFailure \in env.deliveries :
                    alerts' = Append(alerts, sendMessage("failure", dFailure))
               /\ pc' = TryAlerts(alerts', "sleep")
               /\ inFlight' = inFlight
       ELSE /\ outcome' = outcome
            /\ pc' = "sleep"
            /\ inFlight' = inFlight
            /\ alerts' = alerts
  /\ UNCHANGED << prog, env, users, idx, started, tokenRes, mInfos, dInfos,
                  tokensWithUnderlying, bestCollateral, sizing, lParam, slept,
                  assetReads, swap >>
  /\ UNCHANGED scanVars

\* index.js: tx.wait() inside the same try: the receipt, or a revert that is
\* caught and classified as a failure; either way the outcome message is sent.
Wait ==
  /\ pc = "wait"
  /\ inFlight' = inFlight \ {unhealthyUsers[idx]}
  /\ \/ outcome' = "success"
     \/ outcome' = "failure"
  /\ \E dOutcome \in env.deliveries :
       alerts' = Append(alerts, sendMessage(outcome', dOutcome))
  /\ pc' = TryAlerts(alerts', "sleep")
  /\ UNCHANGED << prog, env, users, idx, started, tokenRes, mInfos, dInfos,
                  tokensWithUnderlying, bestCollateral, sizing, lParam, slept,
                  assetReads, swap >>
  /\ UNCHANGED scanVars

\* await sleep(5000), after the try/catch, then the next record
Sleep ==
  /\ pc = "sleep"
  /\ slept' = SLEEP_MS
  /\ NextBorrower
  /\ UNCHANGED << prog, env, users, started, inFlight, tokenRes, mInfos,
                  dInfos,
                  tokensWithUnderlying, bestCollateral, sizing, lParam, outcome,
                  assetReads, swap >>
  /\ UNCHANGED << scanVars, alerts >>

\* The for..of loop has no record left: main() returns.
Finish ==
  /\ pc = "loop"
  /\ idx > Len(unhealthyUsers)
  /\ pc' = "done"
  /\ UNCHANGED << prog, env, users, idx, started, inFlight, alerts >>
  /\ UNCHANGED scanVars
  /\ UNCHANGED borrowerVars

Next ==
  \/ ScanChunk
  \/ Filter
  \/ Resolve
  \/ Select
  \/ Size
  \/ Quote
  \/ Execute
  \/ Wait
  \/ Sleep
  \/ Finish

Spec == Init /\ [][Next]_vars

SpecSizing == InitWith(SizingEnv, 1) /\ [][Next]_vars

SpecTiers == InitWith(TierEnv, NumUsers) /\ [][Next]_vars

\* Borrowers with every combination of zero and positive wrapper balances
SpecResolver == InitWith(ResolverEnv, NumUsers) /\ [][Next]_vars

\* One borrower, all the answers of the reads of the collateral selector
SpecSelect == InitWith(SelectEnv, 1) /\ [][Next]_vars

\* One borrower, all the answers of the swap venues
SpecQuotes == InitWith(QuoteEnv, 1) /\ [][Next]_vars

\* One borrower, reserve configuration words of every shape
SpecConfig == InitWith(ConfigEnv, 1) /\ [][Next]_vars

\* The scan over two pools and up to NumUsers + 1 borrowers (two chunks)
SpecScan == InitWith(ScanEnv, NumUsers + 1) /\ [][Next]_vars

\* ================================================================= claims
\* The record the loop body is working on, and the inputs of its sizing
Current == unhealthyUsers[idx]
PlanAssembled == pc \in {"execute", "wait", "sleep"} /\ lParam # <<>>
LiquidityRead == pc \in {"quote", "execute", "wait", "sleep"}

\* The close-factor amount as the specification states it; index.js applies no
\* close factor, there the whole debt balance takes its place.
StatedCloseFactor(h) == IF h < 95 THEN 10000 ELSE 5000
StatedCloseFactorAmount(h, d) == (StatedCloseFactor(h) * d) \div 10000
StatedCap(h, d) == IF prog = "quoted" THEN StatedCloseFactorAmount(h, d) ELSE d

\* C1: for 0 < h < 1.0 the amount of the plan is
\* min(cf(h) * d div 10000, a), cf = 10000 below 0.95 and 5000 from 0.95 on,
\* with truncating division (part_000, where the sizing engine lives).
C1_CoverAmount ==
  (prog = "quoted" /\ PlanAssembled
     /\ 0 < Current.healthFactor /\ Current.healthFactor < 100)
  => LET cfa == StatedCloseFactorAmount(Current.healthFactor, dInfos[1].amount)
         a == sizing.debtBalanceInmToken
     IN lParam[1].amount = (IF cfa <= a THEN cfa ELSE a)

\* h = 0.97, d = 1000, a = 2000 gives 500
C1_Witness ==
  /\ prog = "quoted" /\ PlanAssembled
  /\ Current.healthFactor = 97 /\ dInfos[1].amount = 1000
  /\ sizing.debtBalanceInmToken = 2000
  /\ lParam[1].amount = 500

\* C2: debtToCover is the exact cover amount when the liquidity cap binds
\* (a < close-factor amount) and the maximum-value sentinel when the
\* close-factor amount binds (close-factor amount <= a).
C2_DebtToCoverConvention ==
  PlanAssembled
  => LET cfa == StatedCap(Current.healthFactor, dInfos[1].amount)
         a == sizing.debtBalanceInmToken
     IN /\ (a < cfa => lParam[1].debtToCover = a /\ lParam[1].amount = a)
        /\ (cfa <= a => lParam[1].debtToCover = MaxUint256)

\* the cap binds: h = 0.94, d = 1000, a = 700, exactly 700 is requested
C2_Witness ==
  /\ prog = "quoted" /\ PlanAssembled
  /\ Current.healthFactor = 94 /\ dInfos[1].amount = 1000
  /\ sizing.debtBalanceInmToken = 700
  /\ lParam[1].debtToCover = 700

\* C3 as stated: the sentinel is returned iff the available liquidity is the
\* binding term of the min, and h = 0.90, d = 1000, a = 2000 requests the
\* exact amount rather than the sentinel.
C3_SentinelIffLiquidityBinds ==
  (prog = "quoted" /\ PlanAssembled)
  => LET cfa == StatedCap(Current.healthFactor, dInfos[1].amount)
         a == sizing.debtBalanceInmToken
     IN /\ (lParam[1].debtToCover = MaxUint256) <=> (a < cfa)
        /\ (Current.healthFactor = 90 /\ dInfos[1].amount = 1000 /\ a = 2000)
             => (lParam[1].amount = 1000 /\ lParam[1].debtToCover = 1000)

\* C3 amended: the sentinel is returned iff the close-factor amount is the
\* binding term (close-factor amount <= a); h = 0.90, d = 1000, a = 2000 has
\* cover 1000 and debtToCover is the sentinel.
C3_SentinelIffCloseFactorBinds ==
  (prog = "quoted" /\ PlanAssembled)
  => LET cfa == StatedCap(Current.healthFactor, dInfos[1].amount)
         a == sizing.debtBalanceInmToken
     IN /\ (lParam[1].debtToCover = MaxUint256) <=> (cfa <= a)
        /\ (Current.healthFactor = 90 /\ dInfos[1].amount = 1000 /\ a = 2000)
             => (lParam[1].amount = 1000 /\ lParam[1].debtToCover = MaxUint256)

C3_Witness ==
  /\ prog = "quoted" /\ PlanAssembled
  /\ Current.healthFactor = 90 /\ dInfos[1].amount = 1000
  /\ sizing.debtBalanceInmToken = 2000
  /\ lParam[1].amount = 1000
  /\ lParam[1].debtToCover = MaxUint256

\* C4: when the available liquidity of the debt asset is 0 the borrower is
\* short-circuited: no plan (of amount 0) is assembled, nothing is submitted.
C4_ZeroLiquidityShortCircuits ==
  (LiquidityRead /\ sizing.debtBalanceInmToken = 0)
  => /\ lParam = <<>>
     /\ pc \notin {"execute", "wait"}
     /\ inFlight = {}

\* ------------------------------------------------------------------ tiers
Scanned == pc \notin {"scan", "filter", "aborted:scan"}
InTier(tier, r) == \E k \in 1..Len(tier) : tier[k] = r
Records == {allUsersHealthRes[k] : k \in 1..Len(allUsersHealthRes)}
TierCount(r) ==
  (IF InTier(unhealthyUsers, r) THEN 1 ELSE 0)
  + (IF InTier(wideUnhealthyUsers, r) THEN 1 ELSE 0)
  + (IF InTier(zeroHealthUsers, r) THEN 1 ELSE 0)

C6_TiersDisjoint == Scanned => \A r \in Records : TierCount(r) <= 1

\* C7: the sizing engine is invoked, and a liquidation prepared, only for
\* records with 0 < hf < 1.0; never for hf >= 1.0, exactly 1.0 included.
C7_SizingOnlyBelowOne ==
  /\ sizing.invoked => (0 < sizing.healthFactor /\ sizing.healthFactor < 100)
  /\ (prog = "quoted" /\ PlanAssembled)
       => (0 < Current.healthFactor /\ Current.healthFactor < 100)

\* ------------------------------------------------------------------- loop
InBody == pc \in {"select", "size", "quote", "execute", "wait", "sleep"}

\* C8: the records processed are the liquidatable tier in scan order (pool by
\* pool, borrowers in list order), each once, one at a time: a record is
\* entered only when the one before is finished, at most one submission is in
\* flight and it is the current record's, no zeroed record is ever entered,
\* and a cycle that completes has entered them all.
C8_SequentialInScanOrder ==
  /\ Len(started) <= Len(unhealthyUsers)
  /\ started = SubSeq(unhealthyUsers, 1, Len(started))
  /\ \A j, k \in 1..Len(started) : j < k =>
       \E a, b \in 1..Len(allUsersHealthRes) :
          /\ a < b
          /\ allUsersHealthRes[a] = started[j]
          /\ allUsersHealthRes[b] = started[k]
  /\ Scanned => \A k \in 1..Len(allUsersHealthRes) :
       /\ allUsersHealthRes[k].pool = env.pools[((k - 1) \div Len(users)) + 1]
       /\ allUsersHealthRes[k].user = users[((k - 1) % Len(users)) + 1]
  /\ \A k \in 1..Len(started) : started[k].healthFactor # 0
  /\ Cardinality(inFlight) <= 1
  /\ inFlight # {} => (InBody /\ inFlight = {started[Len(started)]})
  /\ InBody => Len(started) = idx
  /\ pc = "loop" => Len(started) = idx - 1
  /\ pc = "done" =>
       /\ started = unhealthyUsers
       /\ \A r \in Records :
            (0 < r.healthFactor /\ r.healthFactor <= 100) => InTier(started, r)

\* the second liquidatable record is in flight, the first is finished, and a
\* zeroed record was passed over
C8_Witness ==
  /\ pc = "wait"
  /\ Len(started) = 2
  /\ inFlight = {started[2]}
  /\ started[1].pool # started[2].pool
  /\ Len(zeroHealthUsers) > 0

\* C9: an attempt, whether its submission succeeds, reverts or throws, is
\* classified, followed by the fixed 5000 ms sleep and then by the next
\* record; a submission failure never ends the cycle.
C9_PacingAfterEveryAttempt ==
  [][ /\ (pc \in {"execute", "wait"}) => (pc' \in {"wait", "sleep"})
      /\ (pc \in {"execute", "wait"} /\ pc' = "sleep" /\ prog = "index")
           => (outcome' \in {"success", "failure"})
      /\ (pc = "sleep") => (/\ slept' = 5000
                            /\ outcome' = outcome
                            /\ idx' = idx + 1
                            /\ pc' = "loop") ]_vars

\* a failed attempt was followed by the sleep and another record is next
C9_Witness ==
  /\ pc = "loop"
  /\ outcome = "failure"
  /\ slept = 5000
  /\ idx <= Len(unhealthyUsers)

\* C10: the failure of one remote read (a scan chunk's batched call, a
\* borrower's position lookup, a borrower's debt-liquidity lookup) excludes
\* that chunk or borrower only and never aborts the cycle.
C10_ReadFailureNeverAborts ==
  pc \notin {"aborted:scan", "aborted:positions", "aborted:liquidity"}
\* ---------------------------------------------------------------- C11
\* The position (1-based) of the record of pool number p and borrower number u
RecordPos(p, u) == (p - 1) * Len(users) + u

\* C11: the scan yields one HealthRecord per (pool, borrower): after k chunks
\* the list holds the records of the pairs scanned so far in pool-major
\* order, a completed scan holds exactly |pools| * |users| of them, the
\* record of pool p and borrower u carries pool p and users[u], and the
\* records of the latest chunk carry, position by position, the health
\* factors of the gateway's answer to that chunk.
C11_ScanZipsPositionally ==
  /\ Len(allUsersHealthRes) = (poolInd - 1) * Len(users) + i
  /\ Scanned => Len(allUsersHealthRes) = Len(env.pools) * Len(users)
  /\ \A p \in 1..Len(env.pools), u \in 1..Len(users) :
        RecordPos(p, u) <= Len(allUsersHealthRes) =>
          /\ allUsersHealthRes[RecordPos(p, u)].pool = env.pools[p]
          /\ allUsersHealthRes[RecordPos(p, u)].user = users[u]
  /\ \A ind \in 1..Len(returnData) :
        allUsersHealthRes[Len(allUsersHealthRes) - Len(returnData) + ind]
          .healthFactor = returnData[ind]

\* a completed scan of two pools over three borrowers: the second chunk of
\* each pool holds one borrower, and its answer differs from the first
\* borrower's
C11_Witness ==
  /\ Scanned
  /\ Len(env.pools) = 2
  /\ Len(users) = userChunkSize + 1
  /\ Len(returnData) = 1
  /\ allUsersHealthRes[RecordPos(2, 3)].healthFactor
       # allUsersHealthRes[RecordPos(2, 1)].healthFactor
  /\ allUsersHealthRes[RecordPos(1, 3)].healthFactor
       # allUsersHealthRes[RecordPos(2, 3)].healthFactor

\* ------------------------------------------------------------ C12 - C15
\* A venue fails: its call reverts, or it returns no positive output
V2Fails(a) ==
  a.reverts \/ Len(a.amounts) <= 1 \/ a.amounts[Len(a.amounts)] <= 0
V3Fails(a) == \A k \in 1..Len(feeTiers) : a[k].reverts \/ a[k].amountOut <= 0
AgroFails(a) ==
  a.reverts \/ Len(a.amounts) = 0 \/ a.amounts[Len(a.amounts)] <= 0

\* What each adapter returns for the request of the collateral -> debt leg
AdapterResults ==
  << getV2Quote(swap.collateralAsset, swap.debtAsset, swap.collateralAmount,
                swap.ansRepay.v2),
     getV3Quote(swap.collateralAsset, swap.debtAsset, swap.collateralAmount,
                swap.ansRepay.v3),
     getAgroKittyQuote(swap.collateralAsset, swap.debtAsset,
                       swap.collateralAmount, <<>>, swap.ansRepay.agro) >>

VenueFails == << V2Fails(swap.ansRepay.v2), V3Fails(swap.ansRepay.v3),
                 AgroFails(swap.ansRepay.agro) >>

\* C12: when every venue fails getBestQuote returns null and raises
\* nothing; when exactly one venue succeeds it returns that venue's quote
\* as the adapter made it.
C12_AllFailIsNullOneIsReturned ==
  swap.asked =>
    /\ (\A v \in 1..3 : VenueFails[v]) => swap.repayQuote.tag = "null"
    /\ \A v \in 1..3 :
         (~VenueFails[v] /\ \A w \in 1..3 : w # v => VenueFails[w])
           => /\ swap.repayQuote.tag = "quote"
              /\ AdapterResults[v].tag = "quote"
              /\ swap.repayQuote.quote = AdapterResults[v].quote

\* C13: getBestQuote returns the quote with the greatest amountOutMin among
\* the quotes of the three venues; a venue without a quote does not stop
\* another venue's quote from being returned.
C13_BestAmountOutMinOfAllVenues ==
  swap.asked =>
    LET offered == {v \in 1..3 : AdapterResults[v].tag = "quote"}
    IN offered # {} =>
         /\ swap.repayQuote.tag = "quote"
         /\ \E v \in offered : swap.repayQuote.quote = AdapterResults[v].quote
         /\ \A v \in offered :
              swap.repayQuote.quote.amountOutMin
                >= AdapterResults[v].quote.amountOutMin

\* C14: without a quote for the collateral -> debt leg the borrower is
\* skipped: no plan is assembled for it.
C14_NoQuoteIsSkip ==
  (prog = "quoted" /\ swap.asked /\ swap.repayQuote.tag # "quote")
    => lParam = <<>>

\* The quotes the adapters returned and the one getBestQuote selected
ReturnedQuotes ==
  {AdapterResults[v].quote : v \in {w \in 1..3 : AdapterResults[w].tag = "quote"}}
    \cup (IF swap.repayQuote.tag = "quote" THEN {swap.repayQuote.quote} ELSE {})

\* C15: every quote an adapter returns, and the quote getBestQuote selects,
\* has an amountOut, and its amountOutMin is not above it.
C15_AmountOutMinBelowAmountOut ==
  swap.asked =>
    \A q \in ReturnedQuotes :
      /\ "amountOut" \in DOMAIN q
      /\ q.amountOutMin <= q.amountOut

\* ------------------------------------------------------------ C16 - C18
\* selectBestCollateralAsset has just returned for the current borrower
Selected == assetReads # <<>>

\* Holding number k was read as collateral-eligible
EligibleRead(k) == assetReads[k].reserve = EligibleReserve

\* price * balance div 10^tokenDecimals div 10^oracleDecimals of holding k,
\* from the price and decimals the selector obtained for it
StatedValueUSD(k) ==
  ((getAssetPrice(assetReads[k].price) * mInfos[k].amount)
     \div (10 ^ getTokenDecimals(assetReads[k].decimals)))
    \div (10 ^ oracleDecimals)

\* The positions of the holdings whose asset is the returned candidate's
SelectedAt == {k \in 1..Len(mInfos) : mInfos[k].token = bestCollateral[1].address}

\* C16: the selector returns null exactly when no holding is read as
\* collateral-eligible, and what it returns is always a holding that was read
\* as eligible, whatever the values of the others.
C16_NullIffNoEligible ==
  Selected =>
    /\ bestCollateral = <<>> <=> \A k \in 1..Len(mInfos) : ~EligibleRead(k)
    /\ bestCollateral # <<>> =>
         /\ bestCollateral[1].usageAsCollateralEnabled
         /\ \E k \in SelectedAt : EligibleRead(k)

\* an ineligible holding worth more than the returned candidate
C16_Witness ==
  /\ Selected
  /\ bestCollateral # <<>>
  /\ \E k \in 1..Len(mInfos) :
       /\ assetReads[k].reserve = IneligibleReserve
       /\ StatedValueUSD(k) > bestCollateral[1].valueUSD
       /\ bestCollateral[1].valueUSD > 0

\* C17: the returned candidate carries the stated valueUSD, no eligible
\* holding is worth more, among the eligible holdings of the same value it
\* is the first of the input, and selecting again returns the same candidate.
C17_MaxValueFirstOnTies ==
  (Selected /\ bestCollateral # <<>>) =>
    /\ \E k \in SelectedAt :
         /\ EligibleRead(k)
         /\ bestCollateral[1].valueUSD = StatedValueUSD(k)
         /\ bestCollateral[1].balance = mInfos[k].amount
         /\ \A j \in 1..Len(mInfos) :
              EligibleRead(j) =>
                /\ StatedValueUSD(j) <= StatedValueUSD(k)
                /\ StatedValueUSD(j) = StatedValueUSD(k) => k <= j
    /\ selectBestCollateralAsset(mInfos, assetReads) = bestCollateral

\* three eligible holdings: the last two tie at a truncated, positive
\* value above the first one's, and the earlier of the two is returned
C17_Witness ==
  /\ Selected
  /\ Len(mInfos) = 3
  /\ \A k \in 1..3 : EligibleRead(k)
  /\ StatedValueUSD(1) < StatedValueUSD(2)
  /\ StatedValueUSD(2) = StatedValueUSD(3)
  /\ mInfos[2].amount # mInfos[3].amount
  /\ StatedValueUSD(2) * (10 ^ oracleDecimals)
       # getAssetPrice(assetReads[2].price) * mInfos[2].amount
  /\ bestCollateral # <<>>
  /\ bestCollateral[1].address = mInfos[2].token

\* A read of holding k was rejected
LookupFailed(k) ==
  \/ ~assetReads[k].reserve.ok
  \/ ~assetReads[k].price.ok
  \/ ~assetReads[k].decimals.ok

\* C18: a holding one of whose reads (reserve configuration, price,
\* decimals) failed is never the selected collateral.
C18_FailedLookupExcludes ==
  Selected =>
    \A k \in 1..Len(mInfos) :
      LookupFailed(k) =>
        (bestCollateral = <<>> \/ bestCollateral[1].address # mInfos[k].token)

\* ------------------------------------------------------------ C19 - C20
\* The position lookup of the current borrower has been decoded
Resolved == tokenRes # <<>>

\* The balance and the underlying asset decoded for wrapper number n of the
\* request (collateral wrappers first, then debt wrappers)
BalanceOfWrapper(n) == tokenRes[2 * n - 1]
UnderlyingOfWrapper(n) == tokenRes[2 * n]

\* C19: no entry of the collateral holdings list or of the debt holdings
\* list has amount 0.
C19_NoZeroHoldings ==
  /\ \A k \in 1..Len(mInfos) : mInfos[k].amount # 0
  /\ \A k \in 1..Len(dInfos) : dInfos[k].amount # 0

\* a borrower with a zero and a positive balance on each side
C19_Witness ==
  /\ Resolved
  /\ \E n \in 1..Len(env.mTokens) : BalanceOfWrapper(n) = 0
  /\ \E n \in (Len(env.mTokens) + 1)..(Len(env.mTokens) + Len(env.dTokens)) :
       BalanceOfWrapper(n) = 0
  /\ Len(mInfos) > 0
  /\ Len(dInfos) > 0

\* C20: the index has one entry per lower-cased underlying asset, and the
\* entry of an asset names the first collateral wrapper, in the order of the
\* configuration, that reported it.
C20_IndexDedupFirstWrapper ==
  /\ \A j, k \in 1..Len(tokensWithUnderlying) :
       j # k => tokensWithUnderlying[j].token # tokensWithUnderlying[k].token
  /\ \A k \in 1..Len(tokensWithUnderlying) :
       \E n \in 1..Len(env.mTokens) :
         /\ tokensWithUnderlying[k].mtoken = env.mTokens[n]
         /\ toLowerCase(UnderlyingOfWrapper(n)) = tokensWithUnderlying[k].token
         /\ \A m \in 1..(n - 1) :
              toLowerCase(UnderlyingOfWrapper(m)) # tokensWithUnderlying[k].token

\* two wrappers reported the same underlying asset, the later one with the
\* borrower's only balance of the two: the index names the earlier one
C20_Witness ==
  /\ Resolved
  /\ \E m, n \in 1..Len(env.mTokens) :
       /\ m < n
       /\ UnderlyingOfWrapper(m) = UnderlyingOfWrapper(n)
       /\ BalanceOfWrapper(m) = 0
       /\ BalanceOfWrapper(n) > 0
       /\ \E k \in 1..Len(tokensWithUnderlying) :
            /\ tokensWithUnderlying[k].token = toLowerCase(UnderlyingOfWrapper(m))
            /\ tokensWithUnderlying[k].mtoken = env.mTokens[m]
  /\ Len(tokensWithUnderlying) < Len(env.mTokens)

\* ---------------------------------------------------------------- C21
\* The wrappers of the request, collateral and debt, by number
AllWrappers == 1..(Len(env.mTokens) + Len(env.dTokens))

\* The keys of the index
IndexKeys ==
  {tokensWithUnderlying[k].token : k \in 1..Len(tokensWithUnderlying)}

\* C21 as stated: the index has an underlying asset only if some wrapper of
\* that asset has a non-zero balance for the borrower.
C21_ZeroBalanceNoIndexEntry ==
  Resolved =>
    \A key \in IndexKeys :
      \E n \in AllWrappers :
        /\ toLowerCase(UnderlyingOfWrapper(n)) = key
        /\ BalanceOfWrapper(n) # 0

\* C21 as amended: a wrapper with a zero balance contributes no holding, and
\* the index holds the underlying asset of every collateral wrapper of the
\* configuration, whatever the borrower's balances, and nothing else.
C21_IndexCoversEveryCollateralWrapper ==
  Resolved =>
    /\ Len(mInfos) =
         Cardinality({n \in 1..Len(env.mTokens) : BalanceOfWrapper(n) # 0})
    /\ Len(dInfos) =
         Cardinality({n \in AllWrappers :
                        n > Len(env.mTokens) /\ BalanceOfWrapper(n) # 0})
    /\ IndexKeys = {toLowerCase(UnderlyingOfWrapper(n)) :
                      n \in 1..Len(env.mTokens)}

\* no wrapper of asset B has a balance, the borrower has collateral and debt
\* elsewhere, and the index has the entry of asset B
C21_Witness ==
  /\ Resolved
  /\ Len(mInfos) > 0
  /\ Len(dInfos) > 0
  /\ \A n \in AllWrappers :
       UnderlyingOfWrapper(n) = "B" => BalanceOfWrapper(n) = 0
  /\ \E k \in 1..Len(tokensWithUnderlying) :
       /\ tokensWithUnderlying[k].token = "b"
       /\ tokensWithUnderlying[k].mtoken = "mB"

\* ------------------------------------------------------------ claim C22
\* Undelivered(step, k): the step taken from position `step` sent, as the k-th
\* alert of the list it leaves, an alert that was not delivered.
Undelivered(step, k) ==
  /\ pc = step
  /\ alerts' # alerts
  /\ k \in 1..Len(alerts')
  /\ ~alerts'[k].delivered

\* C22: a failure to deliver an alert (at-risk report, per-borrower start,
\* per-borrower outcome on success or on failure, no collateral or debt) never
\* aborts the engine: the step that sent it goes exactly where it goes when
\* the alert is delivered - the report into the loop, the start alert into the
\* position lookup and its branch, the outcome alert into the pacing delay,
\* the no-position alert on to the next borrower.
C22_AlertFailureNeverAborts ==
  [][ /\ pc' # "aborted:alert"
      /\ (Undelivered("filter", 1) \/ Undelivered("filter", 2)
            => pc' = "loop" /\ idx' = idx)
      /\ (Undelivered("loop", 1)
            => /\ started' = Append(started, unhealthyUsers[idx])
               /\ \/ pc' = "aborted:positions"
                  \/ /\ tokenRes' # <<>>
                     /\ pc' = IF /\ Len(mInfos') > 0
                                 /\ Len(dInfos') > 0
                                 /\ FindDebtMToken(tokensWithUnderlying',
                                                   dInfos'[1].token) # <<>>
                                THEN "size" ELSE "loop")
      /\ (Undelivered("loop", 2)
            => /\ Len(mInfos') = 0 \/ Len(dInfos') = 0
               /\ pc' = "loop"
               /\ idx' = idx + 1)
      /\ (Undelivered("execute", Len(alerts')) \/ Undelivered("wait", Len(alerts'))
            => /\ outcome' = alerts'[Len(alerts')].at
               /\ pc' = "sleep"
               /\ idx' = idx)
    ]_vars

\* A cycle that ended normally although neither the start alert nor the
\* outcome alert of its last attempt was delivered.
C22_Witness ==
  /\ pc = "done"
  /\ prog = "index"
  /\ Len(alerts) = 2
  /\ ~alerts[1].delivered
  /\ ~alerts[2].delivered
  /\ alerts[2].at \in {"success", "failure"}
  /\ slept = SLEEP_MS

\* ------------------------------------------------------------ claim C23
\* The wrapper the n-th request pair is addressed to: config's collateral
\* wrappers, then its debt wrappers.
WrapperAt(n) == (env.mTokens \o env.dTokens)[n]

\* The wrappers of a side (collateral: 1..Len(mTokens), debt: the rest) that
\* reported a non-zero balance, and the place of such a wrapper among them.
HeldIn(side) == {n \in side : BalanceOfWrapper(n) # 0}
RankIn(side, n) == Cardinality({m \in HeldIn(side) : m <= n})

\* The holdings of a side are exactly its held wrappers, in request order,
\* each with its own balance and its own underlying asset.
MirrorsSide(infos, side) ==
  /\ Len(infos) = Cardinality(HeldIn(side))
  /\ \A n \in HeldIn(side) :
        infos[RankIn(side, n)] = [token  |-> UnderlyingOfWrapper(n),
                                  amount |-> BalanceOfWrapper(n)]

CollateralSide == 1..Len(env.mTokens)
DebtSide == AllWrappers \ CollateralSide

\* C23: the answer list holds [balance, underlying] per wrapper, collateral
\* wrappers before debt wrappers, and the decode mirrors it: the balance at
\* 0-based index 2k goes with the underlying at 2k+1 and becomes a collateral
\* holding iff k < number of collateral wrappers, a debt holding otherwise.
C23_DecodeMirrorsRequests ==
  Resolved =>
    /\ Len(tokenRes) = 2 * (Len(env.mTokens) + Len(env.dTokens))
    /\ \A n \in AllWrappers :
          /\ UnderlyingOfWrapper(n) = UnderlyingOf(WrapperAt(n))
          /\ BalanceOfWrapper(n) \in
               (IF n \in CollateralSide THEN env.mBals ELSE env.dBals)
    /\ MirrorsSide(mInfos, CollateralSide)
    /\ MirrorsSide(dInfos, DebtSide)

\* The first collateral wrapper (asset A) reported nothing, the second wrapper
\* of the same asset and the wrapper of B did; the first debt wrapper (A)
\* reported nothing and the second (B) did.
C23_Witness ==
  /\ Resolved
  /\ BalanceOfWrapper(1) = 0
  /\ BalanceOfWrapper(2) # 0
  /\ BalanceOfWrapper(3) # 0
  /\ BalanceOfWrapper(4) = 0
  /\ BalanceOfWrapper(5) # 0
  /\ mInfos = << [token |-> "A", amount |-> 7], [token |-> "B", amount |-> 7] >>
  /\ dInfos = << [token |-> "B", amount |-> 1000] >>

\* ------------------------------------------------------------ claim C24
\* The fee tiers whose quote came back with a positive output
PositiveTiers(ans) ==
  {k \in 1..Len(feeTiers) : ~ans[k].reverts /\ ans[k].amountOut > 0}

\* The earliest of the tiers with the largest positive output
WinningTier(ans) ==
  CHOOSE k \in PositiveTiers(ans) :
    \A j \in PositiveTiers(ans) :
      \/ ans[j].amountOut < ans[k].amountOut
      \/ ans[j].amountOut = ans[k].amountOut /\ k <= j

V3Result == AdapterResults[2]

\* C24: getV3Quote quotes the tiers 100, 500, 3000, 10000 and returns the
\* quote of the tier with the largest output, the earliest one on a tie; a
\* tier that fails or quotes 0 never wins, and when no tier has a positive
\* output the result is null, not a zero-output quote.
C24_V3BestTierOrNone ==
  swap.asked =>
    LET ans == swap.ansRepay.v3 IN
      /\ feeTiers = << 100, 500, 3000, 10000 >>
      /\ PositiveTiers(ans) = {} => V3Result = Null
      /\ PositiveTiers(ans) # {} =>
           /\ V3Result.tag = "quote"
           /\ V3Result.quote.amountOut = ans[WinningTier(ans)].amountOut
           /\ V3Result.quote.amountOut > 0
           /\ V3Result.quote.path =
                solidityPack(swap.collateralAsset,
                             feeTiers[WinningTier(ans)], swap.debtAsset)

\* Tier 100 fails, 500 quotes less, 3000 and 10000 tie on the largest output:
\* the quote is the one of tier 3000.
C24_Witness ==
  /\ swap.asked
  /\ swap.ansRepay.v3[1].reverts
  /\ swap.ansRepay.v3[2].amountOut < swap.ansRepay.v3[3].amountOut
  /\ swap.ansRepay.v3[3].amountOut = swap.ansRepay.v3[4].amountOut
  /\ V3Result.tag = "quote"
  /\ V3Result.quote.path.fee = 3000

\* ------------------------------------------------------------ claim C25
V2Result == AdapterResults[1]

\* C25: when the v2 venue's expected-output query fails, getV2Quote does not
\* return null: it returns a quote whose amountOut is amountIn*987 div 1000
\* and whose amountOutMin is that estimate*995 div 1000; when the query
\* succeeds, amountOut is the last element of the returned amounts and
\* amountOutMin is amountOut*995 div 1000.  (An answer that is not an amounts
\* array of at least two elements, which no router gives for a two-token
\* path, is handled like a failed query.)
C25_V2FallbackEstimate ==
  swap.asked =>
    LET ans == swap.ansRepay.v2
        amountIn == swap.collateralAmount
        estimate == (amountIn * 987) \div 1000
    IN
      /\ V2Result.tag = "quote"
      /\ V2Result.quote.amountIn = amountIn
      /\ ans.reverts =>
           /\ V2Result.quote.amountOut = estimate
           /\ V2Result.quote.amountOutMin = (estimate * 995) \div 1000
      /\ ~ans.reverts /\ Len(ans.amounts) >= 2 =>
           /\ V2Result.quote.amountOut = ans.amounts[Len(ans.amounts)]
           /\ V2Result.quote.amountOutMin =
                (ans.amounts[Len(ans.amounts)] * 995) \div 1000
      /\ ~ans.reverts /\ Len(ans.amounts) < 2 =>
           /\ V2Result.quote.amountOut = estimate
           /\ V2Result.quote.amountOutMin = (estimate * 995) \div 1000

\* The query reverted and the quote carries the estimate of a positive input
C25_Witness ==
  /\ swap.asked
  /\ swap.ansRepay.v2.reverts
  /\ swap.collateralAmount > 0
  /\ V2Result.tag = "quote"
  /\ V2Result.quote.amountOut = (swap.collateralAmount * 987) \div 1000
  /\ V2Result.quote.amountOutMin < V2Result.quote.amountOut

\* ------------------------------------------------------------ claim C26
\* Bit b of the word w, and (w div 2^from) mod 2^width: the number whose
\* binary digits are the bits from, from + 1, ... of w
BitOf(w, b) == IF b + 1 <= Len(w) THEN w[b + 1] ELSE 0

RECURSIVE DivMod(_, _, _)
DivMod(w, from, width) ==
  IF width = 0 THEN 0
  ELSE DivMod(w, from, width - 1) + BitOf(w, from + width - 1) * 2 ^ (width - 1)

\* The holdings whose reserve configuration word was read
ConfigRead(k) == k \in 1..Len(assetReads) /\ assetReads[k].reserve.ok

\* C26: for every packed reserve configuration word w the decoded
\* liquidationBonus equals (w div 2^32) mod 2^16 and collateralEligible is
\* true iff (w div 2^56) mod 2 = 1; a word whose bit 56 is 0 decodes to
\* collateralEligible = false whatever its other bits.  The selector acts on
\* the decoded values: a holding is a candidate iff bit 56 of its word is 1,
\* and the returned candidate carries the bonus field of its word.
C26_ConfigurationWordDecoding ==
  Selected =>
    /\ \A k \in 1..Len(assetReads) : ConfigRead(k) =>
          LET w == assetReads[k].reserve.value
              decoded == getReserveConfiguration(assetReads[k].reserve)
          IN /\ decoded.liquidationBonus = DivMod(w, 32, 16)
             /\ decoded.usageAsCollateralEnabled <=> (DivMod(w, 56, 1) = 1)
             /\ BitOf(w, 56) = 0 => ~decoded.usageAsCollateralEnabled
    /\ bestCollateral = <<>> <=>
          ~\E k \in 1..Len(assetReads) :
              ConfigRead(k) /\ BitOf(assetReads[k].reserve.value, 56) = 1
    /\ bestCollateral # <<>> =>
          \E k \in 1..Len(assetReads) :
            /\ ConfigRead(k)
            /\ bestCollateral[1].address = mInfos[k].token
            /\ bestCollateral[1].liquidationBonus =
                 DivMod(assetReads[k].reserve.value, 32, 16)

\* A word with every bit set except bit 56 was read and its holding passed
\* over for a holding whose word has bit 56 set and a bonus field of 1.
C26_Witness ==
  /\ Selected
  /\ ConfigRead(1)
  /\ ConfigRead(2)
  /\ BitOf(assetReads[1].reserve.value, 56) = 0
  /\ DivMod(assetReads[1].reserve.value, 32, 16) = 65535
  /\ DivMod(assetReads[1].reserve.value, 48, 8) = 255
  /\ DivMod(assetReads[1].reserve.value, 57, 7) = 127
  /\ bestCollateral # <<>>
  /\ bestCollateral[1].address = mInfos[2].token
  /\ bestCollateral[1].liquidationBonus = 1

\* ------------------------------------------------------------ claim C27
\* C27: whenever the seizable-collateral amount is computed for a borrower
\* (debtPrice * debtToCover * bonus div collateralPrice div 10000, rescaled by
\* the decimals), the selected collateral's price is greater than 0, so the
\* division is defined and the computation cannot abort the cycle, also when
\* the oracle price lookup for that collateral failed.
C27_SeizeDivisionDefined ==
  /\ pc = "quote" => bestCollateral[1].price > 0
  /\ pc # "aborted:seize"

\* ------------------------------------------------------------ claim C28
\* A swap parameter object: what the liquidation contract is handed per leg
IsSwapParams(x) ==
  {"swapType", "router", "path", "amountIn", "amountOutMin", "adapters"}
    \subseteq DOMAIN x

\* The default parameter object of the leg tokenIn -> tokenOut: the v2 router,
\* the direct two-token path, amountOutMin = 0
IsDefaultLeg(x, tokenIn, tokenOut) ==
  /\ IsSwapParams(x)
  /\ x.swapType = SwapType.UNISWAP_V2
  /\ x.router = Routers.punch
  /\ x.path = encodeAddresses(<< tokenIn, tokenOut >>)
  /\ x.amountOutMin = 0
  /\ x.adapters = <<>>

\* C28: getLiquidationSwapParams is total: for every input and every
\* combination of venue failures, getBestQuote raising an error included, it
\* returns both sParamsToRepayLoan and sParamsToSendToReceiver and passes no
\* failure on; a leg without a usable quote is the default v2-router
\* parameter object with the direct two-token path and amountOutMin = 0.
C28_SwapParamsTotal ==
  swap.asked =>
    /\ DOMAIN swap.swapParams = {"sParamsToRepayLoan", "sParamsToSendToReceiver"}
    /\ IsSwapParams(swap.swapParams.sParamsToRepayLoan)
    /\ IsSwapParams(swap.swapParams.sParamsToSendToReceiver)
    /\ swap.repayQuote.tag # "quote" =>
         /\ IsDefaultLeg(swap.swapParams.sParamsToRepayLoan,
                         swap.collateralAsset, swap.debtAsset)
         /\ swap.swapParams.sParamsToRepayLoan.amountIn = swap.collateralAmount
    /\ swap.receiverQuote.tag # "quote" =>
         IsDefaultLeg(swap.swapParams.sParamsToSendToReceiver,
                      swap.debtAsset, env.wflow)
    /\ ~Aborted

\* The first leg was quoted and the second getBestQuote call raised: both
\* legs came back, as default parameter objects.
C28_Witness ==
  /\ swap.asked
  /\ swap.repayQuote.tag = "quote"
  /\ swap.receiverQuote.tag = "raised"
  /\ IsDefaultLeg(swap.swapParams.sParamsToRepayLoan,
                  swap.collateralAsset, swap.debtAsset)
  /\ IsDefaultLeg(swap.swapParams.sParamsToSendToReceiver,
                  swap.debtAsset, env.wflow)
  /\ pc = "done"

\* ------------------------------------------------------------ claim C29
\* The debt asset is the settlement asset, compared without case
SameAsset == toLowerCase(swap.debtAsset) = toLowerCase(env.wflow)

\* The second getBestQuote call was made
SecondLegQueried == swap.ansReceiver # <<>>

\* C29: the two swap legs are chained in order: the second leg (debt asset to
\* settlement asset) is quoted from the first leg's result, its amountIn is
\* the first leg's amountOutMin, or 0 when the first leg has no quote; a venue
\* is queried for the second leg only if that amount is > 0 and the debt asset
\* differs, case-insensitively, from the settlement asset; and when they are
\* the same asset the second leg has amountOutMin = amountIn.
C29_LegsChained ==
  swap.asked =>
    LET first  == swap.swapParams.sParamsToRepayLoan
        second == swap.swapParams.sParamsToSendToReceiver
    IN
      /\ second.amountIn = first.amountOutMin
      /\ swap.repayQuote.tag # "quote" => second.amountIn = 0
      /\ SecondLegQueried =>
           /\ swap.repayQuote.tag = "quote"
           /\ swap.repayQuote.quote.amountOutMin > 0
           /\ ~SameAsset
           /\ swap.receiverQuote.tag = "quote" =>
                /\ swap.receiverQuote.quote.amountIn =
                     swap.repayQuote.quote.amountOutMin
                /\ second = swap.receiverQuote.quote
                /\ first = swap.repayQuote.quote
      /\ SameAsset => second.amountOutMin = second.amountIn

\* Both legs quoted by the venue, the second from the positive amountOutMin of
\* the first, for a debt asset that is not the settlement asset
C29_Witness ==
  /\ swap.asked
  /\ ~SameAsset
  /\ SecondLegQueried
  /\ swap.receiverQuote.tag = "quote"
  /\ swap.swapParams.sParamsToSendToReceiver.amountIn =
       swap.swapParams.sParamsToRepayLoan.amountOutMin
  /\ swap.swapParams.sParamsToSendToReceiver.amountIn > 0
  /\ swap.swapParams.sParamsToSendToReceiver.amountIn # swap.collateralAmount

\* ------------------------------------------------------------ claim C30
\* The three conditions, for the borrower whose loop body runs or ran last:
\* a collateral and a debt holding; a collateral candidate (index.js takes
\* the first collateral holding, part_000 the selector's result); an entry of
\* the UnderlyingIndex for the underlying of the first debt holding.
HasPositions == Len(mInfos) > 0 /\ Len(dInfos) > 0
HasCandidate == prog = "quoted" => bestCollateral # <<>>
DebtIndexed ==
  \E k \in 1..Len(tokensWithUnderlying) :
    tokensWithUnderlying[k].token = toLowerCase(dInfos[1].token)
PlanConditions == HasPositions /\ HasCandidate /\ DebtIndexed

\* The step ends the loop body for this borrower with nothing done
Skipped ==
  /\ pc' = "loop"
  /\ idx' = idx + 1
  /\ lParam' = <<>>
  /\ inFlight' = {}
  /\ outcome' = None
  /\ slept' = 0

\* C30: a liquidation plan is assembled and submitted for a borrower only if
\* the Position Resolver found at least one collateral and one debt holding,
\* a collateral candidate was selected and the debt asset (underlying of the
\* first debt holding) has an entry in the UnderlyingIndex; in every other
\* case the borrower is skipped with no submission and no pacing delay, and
\* the loop moves on to the next borrower.
C30_PlanOnlyWhenResolvedSelectedIndexed ==
  [][ /\ ( \/ pc' \in {"size", "quote", "execute", "wait", "sleep"}
           \/ lParam' # <<>>
           \/ inFlight' # {}
           \/ outcome' # None
           \/ slept' # 0 ) => PlanConditions'
      /\ ( /\ pc = "loop"
           /\ idx <= Len(unhealthyUsers)
           /\ pc' # "aborted:positions"
           /\ ~(HasPositions' /\ (prog = "quoted" \/ DebtIndexed')) ) => Skipped
      /\ (pc = "select" /\ ~PlanConditions') => Skipped
    ]_vars

\* The first borrower had collateral and debt, but its debt asset has no
\* entry in the UnderlyingIndex: it was passed over, and the loop is at the
\* second record.
C30_Witness ==
  /\ pc = "loop"
  /\ idx = 2
  /\ Len(started) = 1
  /\ idx <= Len(unhealthyUsers)
  /\ HasPositions
  /\ HasCandidate
  /\ ~DebtIndexed
  /\ lParam = <<>>
  /\ slept = 0

====
